---- MODULE Spec2Model ----
(***************************************************************************)
(* Contingency report of GridCal:                                          *)
(*   GridCalEngine/Simulations/ContingencyAnalysis/contingencies_report.py *)
(*                                                                         *)
(* Numbers.  Flows, ratings and powers are integers (MW).  The code        *)
(* guards every division by a rating or a flow with "+ 1e-9".  Writing e   *)
(* for 1e-9, every per-unit quantity of the code is a quotient             *)
(*        (n0 + n1*e) / (d0 + d1*e)                                        *)
(* of two polynomials of degree one in e with integer coefficients, held   *)
(* as the record [n0, n1, d0, d1].  Two such quotients are compared by     *)
(* cross multiplication, which gives a polynomial c0 + c1*e + c2*e^2 with  *)
(* integer coefficients; as long as |c1| and |c2| stay below 10^8 (they do *)
(* for the values used here) its sign is the sign of its first non-zero    *)
(* coefficient, so the comparisons are exact for e = 1e-9.                 *)
(*                                                                         *)
(* Sensitivities (PTDF) are integers in units of 1e-3, MLODF factors are   *)
(* integers.                                                               *)
(***************************************************************************)
EXTENDS Integers, Sequences, FiniteSets, TLC

VARIABLES
    entries,            \* ContingencyResultsReport.entries
    PTDF,               \* the PTDF matrix object handed to analyze / get_ptdf_comp
    PTDF_supplied,      \* history: value of PTDF when it was supplied
    srap_used_power,    \* (branch, bus) matrix: the SRAP usage ledger
    available_power,    \* per bus
    numerical_circuit,  \* [rates, contingency_rates], per branch
    srap_ratings,       \* per branch
    options,            \* the option arguments of analyze
    multi_contingency,  \* per contingency group: [name, branch_indices, mlodf_factors]
    base_flow,          \* base flows of the current time step, per branch
    t,                  \* time index of the driver loop
    cidx,               \* contingency index of the next analyze call
    ncalls,             \* number of calls made so far
    last,               \* history: what the last analyze call did, per studied branch
    res,                \* history: the last get_ptdf_comp call and its result
    others,             \* the entries of the other reports, B and C
    lastop,             \* history: the last operation on a report
    iadd,               \* the position of a running __iadd__ loop
    exported,           \* history: the last tabular export
    rerun,              \* history: an analyze call and its repetition
    tasks,              \* the private reports and ledgers of the parallel tasks
    solver,             \* history: the last is_solvable call
    fdpf,               \* the locals of a call of FDPF and its position
    lp                  \* two linear expressions and the last operation on them

vars == <<entries, PTDF, PTDF_supplied, srap_used_power, available_power,
          numerical_circuit, srap_ratings, options, multi_contingency,
          base_flow, t, cidx, ncalls, last, res,
          others, lastop, iadd, exported, rerun, tasks, solver, fdpf, lp>>

\* the variables of the report operations, of the repeated call, of the tasks
\* and of the direct is_solvable calls
reportVars == <<others, lastop, iadd, exported>>

\* the variables of FDPF and of the linear expressions
numVars == <<fdpf, lp>>

auxVars == <<rerun, tasks, solver, numVars>>

Branches == {1, 2}
Buses == {1, 2}

\* Bounds of the model
MaxCalls == 3
MaxGradeCalls == 1
MaxPtdfCalls == 2

----------------------------------------------------------------------------
(* Exact arithmetic with e = 1e-9 *)

Abs(x) == IF x < 0 THEN -x ELSE x

Min(a, b) == IF a <= b THEN a ELSE b

\* sign of c0 + c1*e + c2*e^2
PSign(p) ==
    IF p[1] # 0 THEN (IF p[1] > 0 THEN 1 ELSE -1)
    ELSE IF p[2] # 0 THEN (IF p[2] > 0 THEN 1 ELSE -1)
    ELSE IF p[3] # 0 THEN (IF p[3] > 0 THEN 1 ELSE -1)
    ELSE 0

\* (n0 + n1*e) / (d0 + d1*e); the denominator is positive
Pu(n0, n1, d0, d1) == [n0 |-> n0, n1 |-> n1, d0 |-> d0, d1 |-> d1]

\* x / (y + 1e-9)
DivEps(x, y) == Pu(x, 0, y, 1)

\* the number k
PuInt(k) == Pu(k, 0, 1, 0)

\* x + p / q, for integers p and q > 0
PuAddFrac(x, p, q) ==
    Pu(q * x.n0 + p * x.d0, q * x.n1 + p * x.d1, q * x.d0, q * x.d1)

\* sign of x - y
PuCmp(x, y) ==
    PSign(<< x.n0 * y.d0 - y.n0 * x.d0,
             x.n0 * y.d1 + x.n1 * y.d0 - y.n0 * x.d1 - y.n1 * x.d0,
             x.n1 * y.d1 - y.n1 * x.d1 >>)

PuLt(x, y) == PuCmp(x, y) < 0

PuLe(x, y) == PuCmp(x, y) <= 0

PuEq(x, y) == PuCmp(x, y) = 0

\* abs(x)
PuAbs(x) == IF PSign(<<x.n0, x.n1, 0>>) < 0 THEN Pu(-x.n0, -x.n1, x.d0, x.d1) ELSE x

----------------------------------------------------------------------------
(* get_ptdf_comp_numba / get_ptdf_comp *)

\* row + k * other, element-wise
RowAxpy(row, k, other) == [b \in DOMAIN row |-> row[b] + k * other[b]]

\* The two nested loops of get_ptdf_comp_numba, from column j, entry i (0-based
\* offset into data/indices, as in indptr).  "result = PTDF[m, :]" is a view of
\* row m of P and "result += ..." is done in place, so the accumulation is
\* written to P[m] and every later read of P[bd_index, :] sees it.
RECURSIVE PtdfCompLoop(_, _, _, _, _, _)
PtdfCompLoop(P, csc, m, bd_indices, j, i) ==
    IF j > Len(bd_indices) THEN P
    ELSE IF i >= csc.indptr[j + 1] THEN
        PtdfCompLoop(P, csc, m, bd_indices, j + 1,
                     IF j + 1 <= Len(bd_indices) THEN csc.indptr[j + 1] ELSE i)
    ELSE IF csc.indices[i + 1] = m THEN
        PtdfCompLoop([P EXCEPT ![m] = RowAxpy(P[m], csc.data[i + 1], P[bd_indices[j]])],
                     csc, m, bd_indices, j, i + 1)
    ELSE PtdfCompLoop(P, csc, m, bd_indices, j, i + 1)

\* mutant of get_ptdf_comp_numba: the accumulation starts from a row of zeros
get_ptdf_comp_numba_FromZeros(csc, P, m, bd_indices) ==
    PtdfCompLoop([P EXCEPT ![m] = [b \in DOMAIN P[m] |-> 0]], csc, m, bd_indices, 1,
                 csc.indptr[1])

\* get_ptdf_comp_numba: the PTDF matrix after the call; the value returned is
\* its row m
get_ptdf_comp_numba(csc, P, m, bd_indices) ==
    PtdfCompLoop(P, csc, m, bd_indices, 1, csc.indptr[1])

\* get_ptdf_comp: [PTDF |-> the matrix after the call, value |-> the row returned]
get_ptdf_comp(mon_br_idx, branch_indices, mlodf_factors, P) ==
    LET after == get_ptdf_comp_numba(mlodf_factors, P, mon_br_idx, branch_indices)
    IN  [PTDF |-> after, value |-> after[mon_br_idx]]

----------------------------------------------------------------------------
(* get_sparse_array_numba and BusesForSrap.is_solvable: called by analyze,  *)
(* defined in csc_numba.py and srap.py of the repository                    *)

Max(a, b) == IF a >= b THEN a ELSE b

\* get_sparse_array_numba(PTDFc, threshold=1e-3): the buses whose sensitivity
\* has a magnitude of at least the threshold (1, in units of 1e-3)
get_sparse_array_numba(PTDFc) == {b \in DOMAIN PTDFc : Abs(PTDFc[b]) >= 1}

\* a bus helps when lowering its injection lowers the magnitude of the flow:
\* its sensitivity has the sign of the flow
Helps(sens, c_flow) == (c_flow >= 0 /\ sens > 0) \/ (c_flow < 0 /\ sens < 0)

\* the buses of S by descending magnitude of sensitivity, ties by bus index
RECURSIVE RankBuses(_, _)
RankBuses(S, PTDFc) ==
    IF S = {} THEN <<>>
    ELSE LET best == CHOOSE b \in S : \A o \in S :
                        \/ Abs(PTDFc[b]) > Abs(PTDFc[o])
                        \/ (Abs(PTDFc[b]) = Abs(PTDFc[o]) /\ b <= o)
         IN  <<best>> \o RankBuses(S \ {best}, PTDFc)

\* at most the first n elements of s
Take(s, n) == SubSeq(s, 1, Min(n, Len(s)))

\* mutant of SrapWalk: the contribution of a bus is its whole headroom
RECURSIVE SrapWalk_IgnoresBudget(_, _, _, _, _, _, _, _)
SrapWalk_IgnoresBudget(ranked, k, total, used, required, srap_pmax_mw, avail, branch_idx) ==
    IF k > Len(ranked) \/ total >= required \/ total >= srap_pmax_mw
    THEN [total |-> total, used |-> used]
    ELSE LET b == ranked[k]
             contribution == Max(avail[b], 0)
         IN  SrapWalk_IgnoresBudget(ranked, k + 1, total + contribution,
                      [used EXCEPT ![branch_idx][b] = @ + contribution],
                      required, srap_pmax_mw, avail, branch_idx)

\* the walk over the ranked buses, from position k
RECURSIVE SrapWalk(_, _, _, _, _, _, _, _)
SrapWalk(ranked, k, total, used, required, srap_pmax_mw, avail, branch_idx) ==
    IF k > Len(ranked) \/ total >= required \/ total >= srap_pmax_mw
    THEN [total |-> total, used |-> used]
    ELSE LET b == ranked[k]
             contribution == Min(Max(avail[b], 0), srap_pmax_mw - total)
         IN  SrapWalk(ranked, k + 1, total + contribution,
                      [used EXCEPT ![branch_idx][b] = @ + contribution],
                      required, srap_pmax_mw, avail, branch_idx)

\* mutant of is_solvable: the power reported is all that was accumulated
is_solvable_ReportsAll(PTDFc, indices, c_flow, rating, srap_pmax_mw, avail, branch_idx, top_n, used) ==
    LET required == Abs(c_flow) - rating
        ranked == Take(RankBuses({b \in indices : Helps(PTDFc[b], c_flow)}, PTDFc), top_n)
        walk == SrapWalk(ranked, 1, 0, used, required, srap_pmax_mw, avail, branch_idx)
    IN  IF required <= 0
        THEN [solved |-> TRUE, power |-> 0, used |-> used]
        ELSE [solved |-> walk.total >= required,
              power |-> walk.total,
              used |-> walk.used]

\* BusesForSrap(branch_idx, indices, sensitivities).is_solvable(...):
\* [solved, power, used |-> the ledger after the call]
is_solvable(PTDFc, indices, c_flow, rating, srap_pmax_mw, avail, branch_idx, top_n, used) ==
    LET required == Abs(c_flow) - rating
        ranked == Take(RankBuses({b \in indices : Helps(PTDFc[b], c_flow)}, PTDFc), top_n)
        walk == SrapWalk(ranked, 1, 0, used, required, srap_pmax_mw, avail, branch_idx)
    IN  IF required <= 0
        THEN [solved |-> TRUE, power |-> 0, used |-> used]
        ELSE [solved |-> walk.total >= required,
              power |-> Min(walk.total, required),
              used |-> walk.used]

----------------------------------------------------------------------------
(* ContingencyResultsReport *)

\* arguments F, T, bus_area_indices, area_names of analyze, and the branch names
F == <<1, 2>>
T == <<2, 1>>
bus_area_indices == <<1, 2>>
area_names == <<"Area1", "Area2">>
branch_names == <<"Branch1", "Branch2">>

\* -99999.999, in units of 1e-3 MW (the one power of the code that is no integer)
ErrorSrapPower == -99999999

\* ContingencyTableEntry.__init__
ContingencyTableEntry(time_index, area_from, area_to, base_name, contingency_name, base_rating, contingency_rating, srap_rating, b_flow, post_contingency_flow, post_srap_flow, base_loading, post_contingency_loading, post_srap_loading, msg_ov, msg_srap, srap_power, solved_by_srap) ==
    [time_index |-> time_index, area_from |-> area_from, area_to |-> area_to,
     base_name |-> base_name, contingency_name |-> contingency_name,
     base_rating |-> base_rating, contingency_rating |-> contingency_rating,
     srap_rating |-> srap_rating, base_flow |-> b_flow,
     post_contingency_flow |-> post_contingency_flow,
     post_srap_flow |-> post_srap_flow, base_loading |-> base_loading,
     post_contingency_loading |-> post_contingency_loading,
     post_srap_loading |-> post_srap_loading, msg_ov |-> msg_ov,
     msg_srap |-> msg_srap, srap_power |-> srap_power,
     solved_by_srap |-> solved_by_srap]

\* mutant of add_entry: a row the report already holds is not appended again
add_entry_SkipsDuplicates(es, entry) ==
    IF \E i \in 1..Len(es) : es[i] = entry THEN es ELSE Append(es, entry)

\* ContingencyResultsReport.add_entry
add_entry(es, entry) == Append(es, entry)

\* ContingencyResultsReport.add: the entry is built from the arguments and
\* handed to add_entry
add(es, time_index, area_from, area_to, base_name, contingency_name, base_rating, contingency_rating, srap_rating, b_flow, post_contingency_flow, post_srap_flow, base_loading, post_contingency_loading, post_srap_loading, msg_ov, msg_srap, srap_power, solved_by_srap) ==
    add_entry(es, ContingencyTableEntry(time_index, area_from, area_to, base_name,
                                        contingency_name, base_rating, contingency_rating,
                                        srap_rating, b_flow, post_contingency_flow,
                                        post_srap_flow, base_loading,
                                        post_contingency_loading, post_srap_loading,
                                        msg_ov, msg_srap, srap_power, solved_by_srap))

\* mutant of merge: the rows of other that self already holds are left out
merge_NoDuplicates(self_entries, other_entries) ==
    self_entries \o SelectSeq(other_entries,
                              LAMBDA e : \A i \in 1..Len(self_entries) : self_entries[i] # e)

\* ContingencyResultsReport.merge: "self.entries += other.entries", the list's
\* in-place extension, which reads the length of other.entries once
merge(self_entries, other_entries) == self_entries \o other_entries

\* ContingencyResultsReport.size
size(es) == Len(es)

\* ContingencyTableEntry.__hdr__
hdr ==
    <<"Time", "Area 1", "Area 2", "Monitored", "Contingency", "Base rating (MW)",
      "Contingency rating (MW)", "SRAP rating (MW)", "Base flow (MW)",
      "Post-Contingency flow (MW)", "Post-SRAP flow (MW)", "Base loading (pu)",
      "Post-Contingency loading (pu)", "Post-SRAP loading (pu)", "Overload",
      "SRAP availability", "SRAP Power (MW)", "Solved with SRAP">>

\* ContingencyResultsReport.get_headers
get_headers == hdr

\* ContingencyResultsReport.n_cols
n_cols == Len(get_headers)

\* mutant of to_list: the two messages change places
to_list_SwapsMessages(e) ==
    <<e.time_index, e.area_from, e.area_to, e.base_name, e.contingency_name,
      e.base_rating, e.contingency_rating, e.srap_rating, e.base_flow,
      e.post_contingency_flow, e.post_srap_flow, e.base_loading,
      e.post_contingency_loading, e.post_srap_loading, e.msg_srap, e.msg_ov,
      e.srap_power, e.solved_by_srap>>

\* ContingencyTableEntry.to_list
to_list(e) ==
    <<e.time_index, e.area_from, e.area_to, e.base_name, e.contingency_name,
      e.base_rating, e.contingency_rating, e.srap_rating, e.base_flow,
      e.post_contingency_flow, e.post_srap_flow, e.base_loading,
      e.post_contingency_loading, e.post_srap_loading, e.msg_ov, e.msg_srap,
      e.srap_power, e.solved_by_srap>>

\* str of an int
StrInt(x) == ToString(x)

\* str of a float that holds a whole number: the digits and ".0"
StrFloat(x) == ToString(x) \o ".0"

\* str of a float that is a quotient by (rate + 1e-9): "0.0" for zero, else
\* the quotient written out, e standing for 1e-9
StrPu(x) ==
    IF x.n0 = 0 /\ x.n1 = 0 THEN "0.0"
    ELSE "(" \o ToString(x.n0) \o "+" \o ToString(x.n1) \o "e)/("
             \o ToString(x.d0) \o "+" \o ToString(x.d1) \o "e)"

\* str of a bool
StrBool(x) == IF x THEN "True" ELSE "False"

\* str of a str
StrText(x) == x

\* str(a) for the a at position j of to_list: an int at 1, text at 2..5 and
\* 15..16, MW floats at 6..11 and 17, per-unit floats at 12..14, a bool at 18
str(a, j) ==
    IF j = 1 THEN StrInt(a)
    ELSE IF j \in 2..5 \cup 15..16 THEN StrText(a)
    ELSE IF j \in 6..11 \cup {17} THEN StrFloat(a)
    ELSE IF j \in 12..14 THEN StrPu(a)
    ELSE StrBool(a)

\* ContingencyTableEntry.to_string_list
to_string_list(e) == [j \in 1..Len(to_list(e)) |-> str(to_list(e)[j], j)]

\* ContingencyTableEntry.to_array
to_array(e) == to_string_list(e)

\* ContingencyResultsReport.get_data: an array of size() rows and n_cols()
\* columns, row i filled with the array of entry i
get_data(es) == [i \in 1..size(es) |-> [j \in 1..n_cols |-> to_array(es[i])[j]]]

\* mutant of ReportsBaseCase: the base case is reported by every call
ReportsBaseCase_EveryCall(contingency_idx) == TRUE

\* "if contingency_idx == 0": the base case is reported by this call
ReportsBaseCase(contingency_idx) == contingency_idx = 0

\* "if abs(base_flow[m]) > numerical_circuit.rates[m]"
BaseOverloaded(a, m) == Abs(a.base_flow[m]) > a.numerical_circuit.rates[m]

\* the row added for branch m by the base-case loop (the time index t is an
\* integer here: "t if t is not None else 0" is t)
BaseCaseEntry(a, m) ==
    ContingencyTableEntry(
        a.t,
        area_names[bus_area_indices[F[m]]],
        area_names[bus_area_indices[T[m]]],
        branch_names[m],
        "Base",
        a.numerical_circuit.rates[m],
        a.numerical_circuit.contingency_rates[m],
        a.srap_ratings[m],
        Abs(a.base_flow[m]),
        0, 0,
        DivEps(Abs(a.base_flow[m]), a.numerical_circuit.rates[m]),
        PuInt(0), PuInt(0),
        "Overload not acceptable", "SRAP not applicable", 0, FALSE)

\* the base-case loop over mon_idx, from position i
RECURSIVE BaseCaseLoop(_, _, _)
BaseCaseLoop(es, a, i) ==
    IF i > Len(a.mon_idx) THEN es
    ELSE LET m == a.mon_idx[i]
         IN  BaseCaseLoop(IF BaseOverloaded(a, m) THEN add_entry(es, BaseCaseEntry(a, m)) ELSE es,
                          a, i + 1)

\* rate_nx_pu = contingency_rates[m] / (rates[m] + 1e-9)
rate_nx_pu(a, m) ==
    DivEps(a.numerical_circuit.contingency_rates[m], a.numerical_circuit.rates[m])

\* rate_srap_pu = srap_ratings[m] / (rates[m] + 1e-9)
rate_srap_pu(a, m) == DivEps(a.srap_ratings[m], a.numerical_circuit.rates[m])

\* affected_by_cont1 = contingency_flows[m] != base_flow[m]
affected_by_cont1(cf, bf) == cf # bf

\* affected_by_cont2 = c_flow / (b_flow + 1e-9) - 1 > contingency_deadband
affected_by_cont2(c_flow, b_flow, contingency_deadband) ==
    PuLt(PuInt(contingency_deadband), PuAddFrac(DivEps(c_flow, b_flow), -1, 1))

\* mutant of Affected: the test "c_load > 1" is left out
Affected_NoLoadingTest(cf, bf, c_load, contingency_deadband) ==
    /\ affected_by_cont1(cf, bf)
    /\ affected_by_cont2(Abs(cf), Abs(bf), contingency_deadband)
    /\ Abs(cf) > Abs(bf)

\* "if affected_by_cont1 and affected_by_cont2 and c_load > 1 and c_flow > b_flow"
Affected(cf, bf, c_load, contingency_deadband) ==
    /\ affected_by_cont1(cf, bf)
    /\ affected_by_cont2(Abs(cf), Abs(bf), contingency_deadband)
    /\ PuLt(PuInt(1), c_load)
    /\ Abs(cf) > Abs(bf)

\* mutant of Conditions: the first interval is open at rate_nx_pu
Conditions_OpenAtNx(c_load, nx, srap, srap_deadband) ==
    IF PuLt(PuInt(1), c_load) /\ PuLt(c_load, nx)
    THEN [ov_status |-> 1, msg_ov |-> "Overload acceptable", cond_srap |-> FALSE,
          msg_srap |-> "SRAP not needed", max_srap_power |-> 0]
    ELSE IF PuLe(nx, c_load) /\ PuLe(c_load, srap)
    THEN [ov_status |-> 2, msg_ov |-> "Overload not acceptable", cond_srap |-> TRUE,
          msg_srap |-> "SRAP applicable", max_srap_power |-> 0]
    ELSE IF PuLt(srap, c_load) /\ PuLe(c_load, PuAddFrac(srap, srap_deadband, 100))
    THEN [ov_status |-> 3, msg_ov |-> "Overload not acceptable", cond_srap |-> TRUE,
          msg_srap |-> "SRAP not applicable", max_srap_power |-> 0]
    ELSE [ov_status |-> 4, msg_ov |-> "Overload not acceptable", cond_srap |-> FALSE,
          msg_srap |-> "SRAP not applicable", max_srap_power |-> 0]

\* mutant of Conditions: the deadband interval is open at its upper end
Conditions_OpenAtDeadband(c_load, nx, srap, srap_deadband) ==
    IF PuLt(PuInt(1), c_load) /\ PuLe(c_load, nx)
    THEN [ov_status |-> 1, msg_ov |-> "Overload acceptable", cond_srap |-> FALSE,
          msg_srap |-> "SRAP not needed", max_srap_power |-> 0]
    ELSE IF PuLt(nx, c_load) /\ PuLe(c_load, srap)
    THEN [ov_status |-> 2, msg_ov |-> "Overload not acceptable", cond_srap |-> TRUE,
          msg_srap |-> "SRAP applicable", max_srap_power |-> 0]
    ELSE IF PuLt(srap, c_load) /\ PuLt(c_load, PuAddFrac(srap, srap_deadband, 100))
    THEN [ov_status |-> 3, msg_ov |-> "Overload not acceptable", cond_srap |-> TRUE,
          msg_srap |-> "SRAP not applicable", max_srap_power |-> 0]
    ELSE [ov_status |-> 4, msg_ov |-> "Overload not acceptable", cond_srap |-> FALSE,
          msg_srap |-> "SRAP not applicable", max_srap_power |-> 0]

\* the if / elif chain "Conditions to set behaviour"
Conditions(c_load, nx, srap, srap_deadband) ==
    IF PuLt(PuInt(1), c_load) /\ PuLe(c_load, nx)
    THEN [ov_status |-> 1, msg_ov |-> "Overload acceptable", cond_srap |-> FALSE,
          msg_srap |-> "SRAP not needed", max_srap_power |-> 0]
    ELSE IF PuLt(nx, c_load) /\ PuLe(c_load, srap)
    THEN [ov_status |-> 2, msg_ov |-> "Overload not acceptable", cond_srap |-> TRUE,
          msg_srap |-> "SRAP applicable", max_srap_power |-> 0]
    ELSE IF PuLt(srap, c_load) /\ PuLe(c_load, PuAddFrac(srap, srap_deadband, 100))
    THEN [ov_status |-> 3, msg_ov |-> "Overload not acceptable", cond_srap |-> TRUE,
          msg_srap |-> "SRAP not applicable", max_srap_power |-> 0]
    ELSE IF PuLt(PuAddFrac(srap, srap_deadband, 100), c_load)
    THEN [ov_status |-> 4, msg_ov |-> "Overload not acceptable", cond_srap |-> FALSE,
          msg_srap |-> "SRAP not applicable", max_srap_power |-> 0]
    ELSE [ov_status |-> 0, msg_ov |-> "Error", cond_srap |-> FALSE,
          msg_srap |-> "Error", max_srap_power |-> ErrorSrapPower]

\* mutant of RunsSrap: using_srap is not looked at
RunsSrap_IgnoresUsingSrap(using_srap, cond_srap) == cond_srap

\* "if using_srap and cond_srap"
RunsSrap(using_srap, cond_srap) == using_srap /\ cond_srap

\* mutant of SrapMsgOv: the grade is not looked at
SrapMsgOv_AnyGrade(solved_by_srap, ov_status) ==
    IF solved_by_srap THEN "Overload acceptable" ELSE "Overload not acceptable"

\* "if solved_by_srap and ov_status == 2 ... else ..."
SrapMsgOv(solved_by_srap, ov_status) ==
    IF solved_by_srap /\ ov_status = 2
    THEN "Overload acceptable"
    ELSE "Overload not acceptable"

\* mutant of PostSrapFlow: the power is added to the flow
PostSrapFlow_Adds(c_flow, max_srap_power) == c_flow + Abs(max_srap_power)

\* post_srap_flow = abs(c_flow) - abs(max_srap_power), 0.0 when negative
PostSrapFlow(c_flow, max_srap_power) ==
    IF Abs(c_flow) - Abs(max_srap_power) < 0 THEN 0
    ELSE Abs(c_flow) - Abs(max_srap_power)

\* rate_goal
RateGoal(a, m) ==
    IF a.srap_rever_to_nominal_rating
    THEN a.numerical_circuit.rates[m]
    ELSE a.numerical_circuit.contingency_rates[m]

\* The body of the contingency loop for branch m.  st = [entries, PTDF, used,
\* study]: the report, the PTDF matrix, the usage ledger, and the history of
\* what was decided for each branch of this call.
StudyBranch(st, a, m) ==
    LET cf == a.contingency_flows[m]
        bf == a.base_flow[m]
        c_flow == Abs(cf)
        b_flow == Abs(bf)
        c_load == PuAbs(a.contingency_loadings[m])
        nx == rate_nx_pu(a, m)
        srap == rate_srap_pu(a, m)
        cnd == Conditions(c_load, nx, srap, a.srap_deadband)
        runs == RunsSrap(a.using_srap, cnd.cond_srap)
        comp == get_ptdf_comp(m, a.contingency_group.branch_indices,
                              a.contingency_group.mlodf_factors, st.PTDF)
        indices == get_sparse_array_numba(comp.value)
        sol == is_solvable(comp.value, indices, cf, RateGoal(a, m), a.srap_max_power,
                           a.available_power, m, a.top_n, st.used)
        solved_by_srap == IF runs THEN sol.solved ELSE FALSE
        max_srap_power == IF runs THEN sol.power ELSE cnd.max_srap_power
        post_srap_flow == IF runs THEN PostSrapFlow(c_flow, max_srap_power) ELSE c_flow
        msg_ov == IF runs THEN SrapMsgOv(solved_by_srap, cnd.ov_status) ELSE cnd.msg_ov
        entry == ContingencyTableEntry(
                    a.t,
                    area_names[bus_area_indices[F[m]]],
                    area_names[bus_area_indices[T[m]]],
                    branch_names[m],
                    a.contingency_group.name,
                    a.numerical_circuit.rates[m],
                    a.numerical_circuit.contingency_rates[m],
                    a.srap_ratings[m],
                    b_flow, c_flow, post_srap_flow,
                    PuAbs(a.base_loading[m]),
                    c_load,
                    DivEps(post_srap_flow, a.numerical_circuit.rates[m]),
                    msg_ov, cnd.msg_srap, Abs(max_srap_power), solved_by_srap)
        gate == Affected(cf, bf, c_load, a.contingency_deadband)
        after == IF ~gate THEN st
                 ELSE [st EXCEPT !.entries = IF a.detailed_massive_report
                                             THEN add_entry(@, entry) ELSE @,
                                 !.PTDF = IF runs THEN comp.PTDF ELSE @,
                                 !.used = IF runs THEN sol.used ELSE @]
        note == [m |-> m, cf |-> cf, bf |-> bf, c_load |-> c_load,
                 affected |-> gate,
                 ov_status |-> IF gate THEN cnd.ov_status ELSE -1,
                 msg_ov |-> IF gate THEN cnd.msg_ov ELSE "",
                 msg_srap |-> IF gate THEN cnd.msg_srap ELSE "",
                 searched |-> gate /\ runs,
                 search_solved |-> gate /\ runs /\ sol.solved,
                 search_power |-> IF gate /\ runs THEN sol.power ELSE 0,
                 used_before |-> st.used, used_after |-> after.used,
                 PTDF_before |-> st.PTDF, PTDF_after |-> after.PTDF,
                 rows_before |-> Len(st.entries), rows_after |-> Len(after.entries)]
    IN  [after EXCEPT !.study = Append(@, note)]

\* the contingency loop over mon_idx, from position i
RECURSIVE StudyLoop(_, _, _)
StudyLoop(st, a, i) ==
    IF i > Len(a.mon_idx) THEN st
    ELSE StudyLoop(StudyBranch(st, a, a.mon_idx[i]), a, i + 1)

\* ContingencyResultsReport.analyze, on the report es, the matrix P and the
\* ledger used, with the arguments a
analyze(es, P, used, a) ==
    StudyLoop([entries |-> IF ReportsBaseCase(a.contingency_idx)
                           THEN BaseCaseLoop(es, a, 1) ELSE es,
               PTDF |-> P, used |-> used, study |-> <<>>],
              a, 1)

----------------------------------------------------------------------------
(* The inputs *)

\* scipy's csc_matrix of the dense matrix D (D[m][j], ncols columns): data,
\* indices (rows) and indptr (0-based offsets), the zeros not stored
RECURSIVE CscCols(_, _, _, _)
CscCols(D, ncols, j, acc) ==
    IF j > ncols THEN acc
    ELSE LET r1 == IF D[1][j] # 0 THEN <<1>> ELSE <<>>
             r2 == IF D[2][j] # 0 THEN <<2>> ELSE <<>>
             rows == r1 \o r2
             vals == [k \in 1..Len(rows) |-> D[rows[k]][j]]
         IN  CscCols(D, ncols, j + 1,
                     [data |-> acc.data \o vals,
                      indices |-> acc.indices \o rows,
                      indptr |-> Append(acc.indptr, Len(acc.data) + Len(rows))])

csc_matrix(D, ncols) == CscCols(D, ncols, 1, [data |-> <<>>, indices |-> <<>>, indptr |-> <<0>>])

\* LinearMultiContingency of a contingency group
Group(name, branch_indices, D) ==
    [name |-> name, branch_indices |-> branch_indices,
     mlodf_factors |-> csc_matrix(D, Len(branch_indices))]

\* the contingency groups of the analysis runs: the outage of branch 2, and the
\* outage of branches 2 and 1
StudyGroups ==
    << Group("cg1", <<2>>, << <<1>>, <<-1>> >>),
       Group("cg2", <<2, 1>>, << <<1, -1>>, <<-1, 1>> >>) >>

NoStudy == [contingency_idx |-> -1, study |-> <<>>]

NoRes == [called |-> FALSE]

\* the arguments of the analyze call made at the driver's position
Args(mon_idx, contingency_flows, contingency_loadings) ==
    [t |-> t, mon_idx |-> mon_idx,
     numerical_circuit |-> numerical_circuit,
     base_flow |-> base_flow,
     base_loading |-> [m \in Branches |-> DivEps(base_flow[m], numerical_circuit.rates[m])],
     contingency_flows |-> contingency_flows,
     contingency_loadings |-> contingency_loadings,
     contingency_idx |-> cidx,
     contingency_group |-> multi_contingency[cidx + 1],
     using_srap |-> options.using_srap,
     srap_ratings |-> srap_ratings,
     srap_max_power |-> options.srap_max_power,
     srap_deadband |-> options.srap_deadband,
     contingency_deadband |-> options.contingency_deadband,
     srap_rever_to_nominal_rating |-> options.srap_rever_to_nominal_rating,
     available_power |-> available_power,
     top_n |-> options.top_n,
     detailed_massive_report |-> options.detailed_massive_report]

\* One call of analyze by the driver loop (for each time step, for each
\* contingency group), and the loop's advance; the base flows of a new time
\* step are drawn from base_flows.
AnalyzeCall(mon_idx, contingency_flows, contingency_loadings, base_flows) ==
    LET a == Args(mon_idx, contingency_flows, contingency_loadings)
        out == analyze(entries, PTDF, srap_used_power, a)
    IN  /\ entries' = out.entries
        /\ PTDF' = out.PTDF
        /\ srap_used_power' = out.used
        /\ last' = [contingency_idx |-> cidx, t |-> t, base_flow |-> base_flow,
                    before |-> entries, study |-> out.study]
        /\ ncalls' = ncalls + 1
        /\ IF cidx + 1 < Len(multi_contingency)
           THEN cidx' = cidx + 1 /\ t' = t /\ base_flow' = base_flow
           ELSE cidx' = 0 /\ t' = t + 1 /\ base_flow' \in base_flows
        /\ UNCHANGED <<PTDF_supplied, available_power, numerical_circuit, srap_ratings,
                       options, multi_contingency, res, auxVars>>

Options(using_srap, srap_deadband, contingency_deadband, revert, detailed) ==
    [using_srap |-> using_srap, srap_max_power |-> 1400, srap_deadband |-> srap_deadband,
     contingency_deadband |-> contingency_deadband,
     srap_rever_to_nominal_rating |-> revert, top_n |-> 5,
     detailed_massive_report |-> detailed]

ZeroLedger == [m \in Branches |-> [b \in Buses |-> 0]]

NoOp == [op |-> "none"]

NoIadd == [running |-> FALSE]

NoExport == [done |-> FALSE]

\* no other report holds a row, and no report operation has been made
NoReportOps ==
    /\ others = [r \in {"B", "C"} |-> <<>>]
    /\ lastop = NoOp
    /\ iadd = NoIadd
    /\ exported = NoExport

NoRerun == [stage |-> 0]

NoTasks == [k \in {} |-> 0]

NoSrap == [called |-> FALSE]

NoFdpf == [pc |-> "none"]

NoLp == [op |-> "none"]

NoNum ==
    /\ fdpf = NoFdpf
    /\ lp = NoLp

NoAux ==
    /\ NoNum
    /\ rerun = NoRerun
    /\ tasks = NoTasks
    /\ solver = NoSrap

----------------------------------------------------------------------------
(* Spec: the analysis loop of a driver over time steps and contingency groups *)

StudyBaseFlows == { <<80, 80>>, <<110, 80>>, <<110, -110>> }

\* (flow, loading) of branch 1 and of branch 2 after a contingency
StudyCases1 ==
    { <<125, DivEps(125, 100)>>, <<-125, DivEps(-125, 100)>>,
      <<145, DivEps(145, 100)>>, <<125, PuInt(1)>> }

StudyCases2 == { <<-110, DivEps(-110, 100)>>, <<135, DivEps(135, 100)>> }

Init ==
    /\ entries = <<>>
    /\ PTDF = << <<2, 1>>, <<1, 1>> >>
    /\ PTDF_supplied = PTDF
    /\ srap_used_power = ZeroLedger
    /\ available_power = <<3, 30>>
    /\ numerical_circuit = [rates |-> <<100, 100>>, contingency_rates |-> <<120, 120>>]
    /\ srap_ratings = <<140, 140>>
    /\ \E u \in BOOLEAN, sd \in {0, 10} : options = Options(u, sd, 0, FALSE, TRUE)
    /\ multi_contingency = StudyGroups
    /\ base_flow \in StudyBaseFlows
    /\ t = 0
    /\ cidx = 0
    /\ ncalls = 0
    /\ last = NoStudy
    /\ res = NoRes
    /\ NoReportOps
    /\ NoAux

Analyze ==
    /\ ncalls < MaxCalls
    /\ \E c1 \in StudyCases1, c2 \in StudyCases2 :
          AnalyzeCall(<<1, 2>>, <<c1[1], c2[1]>>, <<c1[2], c2[2]>>, StudyBaseFlows)
    /\ UNCHANGED reportVars

Next == Analyze

Spec == Init /\ [][Next]_vars

----------------------------------------------------------------------------
(* SpecGrade: analyze on one monitored branch, over ratings, deadbands,     *)
(* flows and loadings on and around every threshold of the classification   *)

GradeRatings == { <<120, 140>>, <<140, 120>> }

GradeBaseFlows == { <<10, 80>>, <<90, 80>> }

GradeFlows == { -125, -90, 85, 125 }

GradeLoadings ==
    { Pu(k, 0, 100, 0) : k \in {-130, 100, 110, 120, 130, 140, 150, 160} }
    \cup { DivEps(f, 100) : f \in {100, 120, 140, 150} }
    \cup { PuAddFrac(DivEps(f, 100), 10, 100) : f \in {120, 140} }

InitGrade ==
    /\ entries = <<>>
    /\ PTDF = << <<2, 1>>, <<1, 1>> >>
    /\ PTDF_supplied = PTDF
    /\ srap_used_power = ZeroLedger
    /\ available_power = <<3, 30>>
    /\ \E r \in GradeRatings :
          /\ numerical_circuit = [rates |-> <<100, 100>>, contingency_rates |-> <<r[1], 120>>]
          /\ srap_ratings = <<r[2], 140>>
    /\ \E sd \in {0, 10}, cd \in {0, 10}, d \in BOOLEAN :
          options = Options(TRUE, sd, cd, FALSE, d)
    /\ multi_contingency = StudyGroups
    /\ base_flow \in GradeBaseFlows
    /\ t = 0
    /\ cidx = 0
    /\ ncalls = 0
    /\ last = NoStudy
    /\ res = NoRes
    /\ NoReportOps
    /\ NoAux

Classify ==
    /\ ncalls < MaxGradeCalls
    /\ \E cf \in GradeFlows, cl \in GradeLoadings :
          AnalyzeCall(<<1>>, <<cf, 0>>, <<cl, PuInt(0)>>, GradeBaseFlows)
    /\ UNCHANGED reportVars

NextGrade == Classify

SpecGrade == InitGrade /\ [][NextGrade]_vars

----------------------------------------------------------------------------
(* SpecPtdf: get_ptdf_comp on its own, over PTDF matrices, lists of outaged  *)
(* branches and MLODF matrices                                               *)

PtdfValues == {-1, 2}

MlodfValues == {-1, 0, 1}

PtdfMatrices == { << <<a, b>>, <<c, d>> >> : a \in PtdfValues, b \in PtdfValues,
                                             c \in PtdfValues, d \in PtdfValues }

PtdfGroups ==
    { Group("cg", <<>>, << <<>>, <<>> >>) }
    \cup { Group("cg", <<k>>, << <<x>>, <<y>> >>) :
                k \in Branches, x \in MlodfValues, y \in MlodfValues }
    \cup { Group("cg", bd, << <<x1, x2>>, <<y1, y2>> >>) :
                bd \in { <<2, 1>>, <<1, 2>> },
                x1 \in MlodfValues, x2 \in MlodfValues,
                y1 \in MlodfValues, y2 \in MlodfValues }

InitPtdf ==
    /\ entries = <<>>
    /\ PTDF \in PtdfMatrices
    /\ PTDF_supplied = PTDF
    /\ srap_used_power = ZeroLedger
    /\ available_power = <<3, 30>>
    /\ numerical_circuit = [rates |-> <<100, 100>>, contingency_rates |-> <<120, 120>>]
    /\ srap_ratings = <<140, 140>>
    /\ options = Options(TRUE, 0, 0, FALSE, TRUE)
    /\ \E g \in PtdfGroups : multi_contingency = <<g>>
    /\ base_flow = <<80, 80>>
    /\ t = 0
    /\ cidx = 0
    /\ ncalls = 0
    /\ last = NoStudy
    /\ res = NoRes
    /\ NoReportOps
    /\ NoAux

\* a call get_ptdf_comp(mon_br_idx, branch_indices, mlodf_factors, PTDF)
GetPtdfComp ==
    /\ ncalls < MaxPtdfCalls
    /\ \E m \in Branches :
          LET g == multi_contingency[1]
              out == get_ptdf_comp(m, g.branch_indices, g.mlodf_factors, PTDF)
          IN  /\ PTDF' = out.PTDF
              /\ res' = [called |-> TRUE, m |-> m, before |-> PTDF, value |-> out.value]
    /\ ncalls' = ncalls + 1
    /\ UNCHANGED <<entries, PTDF_supplied, srap_used_power, available_power,
                   numerical_circuit, srap_ratings, options, multi_contingency,
                   base_flow, t, cidx, last, reportVars, auxVars>>

NextPtdf == GetPtdfComp

SpecPtdf == InitPtdf /\ [][NextPtdf]_vars

----------------------------------------------------------------------------
(* The reports A (entries), B and C under add_entry, add, merge, += and
   analyze, and the tabular export *)

MaxOps == 3
MaxRows == 6

Reports == {"A", "B", "C"}

\* the reports an operation is called on (C is only ever an argument)
Targets == {"A", "B"}

\* the entries of report r
Rep(r) == IF r = "A" THEN entries ELSE others[r]

AllReports == [r \in Reports |-> Rep(r)]

\* report r holds the entries es after the step, the other reports are kept
SetRep(r, es) ==
    IF r = "A" THEN entries' = es /\ others' = others
    ELSE entries' = entries /\ others' = [others EXCEPT ![r] = es]

\* rows handed to add_entry and to add
SampleEntry(k) ==
    ContingencyTableEntry(k, "Area1", "Area2", "Branch1", "cg1", 100, 120, 140,
                          80, 125, 125 - 5 * k, DivEps(80, 100), DivEps(125, 100),
                          DivEps(125 - 5 * k, 100), "Overload acceptable",
                          "SRAP applicable", 5 * k, k = 1)

\* what the report operations leave alone
ReportFrame ==
    UNCHANGED <<PTDF, PTDF_supplied, srap_used_power, available_power, numerical_circuit,
                srap_ratings, options, multi_contingency, base_flow, t, cidx, last, res,
                auxVars>>

InitReport ==
    /\ entries = <<>>
    /\ PTDF = << <<2, 1>>, <<1, 1>> >>
    /\ PTDF_supplied = PTDF
    /\ srap_used_power = ZeroLedger
    /\ available_power = <<3, 30>>
    /\ numerical_circuit = [rates |-> <<100, 100>>, contingency_rates |-> <<120, 120>>]
    /\ srap_ratings = <<140, 140>>
    /\ options = Options(TRUE, 0, 0, FALSE, TRUE)
    /\ multi_contingency = <<StudyGroups[1]>>
    /\ base_flow = <<110, 80>>
    /\ t = 0
    /\ cidx = 0
    /\ ncalls = 0
    /\ last = NoStudy
    /\ res = NoRes
    /\ \E b \in {<<>>, <<SampleEntry(0)>>} :
          others = [r \in {"B", "C"} |-> IF r = "B" THEN b
                                         ELSE <<SampleEntry(1), SampleEntry(0)>>]
    /\ lastop = NoOp
    /\ iadd = NoIadd
    /\ exported = NoExport
    /\ NoAux

\* an operation may start: no += loop is running
Idle == ncalls < MaxOps /\ ~iadd.running

\* r.add_entry(entry)
AddEntry ==
    /\ Idle
    /\ \E r \in Targets :
          /\ SetRep(r, add_entry(Rep(r), SampleEntry(0)))
          /\ lastop' = [op |-> "add_entry", self |-> r, other |-> r, before |-> AllReports]
    /\ ncalls' = ncalls + 1
    /\ UNCHANGED <<iadd, exported>>
    /\ ReportFrame

\* r.add(time_index, ..., solved_by_srap)
Add ==
    /\ Idle
    /\ \E r \in Targets, k \in {0, 1} :
          /\ SetRep(r, add(Rep(r), k, "Area1", "Area2", "Branch1", "cg1", 100, 120, 140,
                            80, 125, 125 - 5 * k, DivEps(80, 100), DivEps(125, 100),
                            DivEps(125 - 5 * k, 100), "Overload acceptable",
                            "SRAP applicable", 5 * k, k = 1))
          /\ lastop' = [op |-> "add", self |-> r, other |-> r, before |-> AllReports]
    /\ ncalls' = ncalls + 1
    /\ UNCHANGED <<iadd, exported>>
    /\ ReportFrame

\* r.merge(o); o may be r itself
Merge ==
    /\ Idle
    /\ \E r \in Targets, o \in Reports :
          /\ Len(Rep(r)) + Len(Rep(o)) <= MaxRows
          /\ SetRep(r, merge(Rep(r), Rep(o)))
          /\ lastop' = [op |-> "merge", self |-> r, other |-> o, before |-> AllReports]
    /\ ncalls' = ncalls + 1
    /\ UNCHANGED <<iadd, exported>>
    /\ ReportFrame

\* A.analyze(...), one call of the driver loop
AnalyzeReport ==
    /\ Idle
    /\ \E c1 \in {<<125, DivEps(125, 100)>>, <<145, DivEps(145, 100)>>} :
          AnalyzeCall(<<1, 2>>, <<c1[1], 90>>, <<c1[2], DivEps(90, 100)>>, {<<110, 80>>})
    /\ lastop' = [op |-> "analyze", self |-> "A", other |-> "A", before |-> AllReports]
    /\ UNCHANGED <<others, iadd, exported>>

\* r += o begins: "for entry in other.entries" starts at position 0
IAdd ==
    /\ Idle
    /\ \E r \in Targets, o \in Reports :
          /\ iadd' = [running |-> TRUE, self |-> r, other |-> o, i |-> 0]
          /\ lastop' = [op |-> "iadd", self |-> r, other |-> o, before |-> AllReports]
    /\ ncalls' = ncalls + 1
    /\ UNCHANGED <<entries, others, exported>>
    /\ ReportFrame

\* one turn of the loop of __iadd__: the iterator yields other.entries[i] while
\* i is below the present length of other.entries, and self.add_entry appends
\* it; at the end of the list "return self"
IAddLoop ==
    /\ iadd.running
    /\ IF iadd.i < Len(Rep(iadd.other))
       THEN /\ Len(Rep(iadd.self)) < MaxRows
            /\ SetRep(iadd.self, add_entry(Rep(iadd.self), Rep(iadd.other)[iadd.i + 1]))
            /\ iadd' = [iadd EXCEPT !.i = @ + 1]
       ELSE /\ iadd' = NoIadd
            /\ UNCHANGED <<entries, others>>
    /\ UNCHANGED <<lastop, exported, ncalls>>
    /\ ReportFrame

\* r.get_headers() and r.get_data()
Export ==
    /\ Idle
    /\ \E r \in Targets :
          exported' = [done |-> TRUE, rows |-> Rep(r), headers |-> get_headers,
                       data |-> get_data(Rep(r))]
    /\ ncalls' = ncalls + 1
    /\ UNCHANGED <<entries, others, lastop, iadd>>
    /\ ReportFrame

NextReport == AddEntry \/ Add \/ Merge \/ AnalyzeReport \/ IAdd \/ IAddLoop \/ Export

SpecReport == InitReport /\ [][NextReport]_vars

----------------------------------------------------------------------------
(* analyze called twice with the same arguments: the same report, PTDF array,
   ledger and values *)

\* PTDF matrices handed to analyze
StudyPtdfs == { << <<2, 1>>, <<1, 1>> >>, << <<1, 1>>, <<-1, -1>> >> }

InitRerun ==
    /\ entries = <<>>
    /\ PTDF \in StudyPtdfs
    /\ PTDF_supplied = PTDF
    /\ srap_used_power = ZeroLedger
    /\ available_power = <<3, 30>>
    /\ numerical_circuit = [rates |-> <<100, 100>>, contingency_rates |-> <<120, 120>>]
    /\ srap_ratings = <<140, 140>>
    /\ \E u \in BOOLEAN, sd \in {0, 10} : options = Options(u, sd, 0, FALSE, TRUE)
    /\ multi_contingency = <<StudyGroups[1]>>
    /\ base_flow \in StudyBaseFlows
    /\ t = 0
    /\ cidx = 0
    /\ ncalls = 0
    /\ last = NoStudy
    /\ res = NoRes
    /\ NoReportOps
    /\ NoAux

\* what a call of analyze outside the driver loop leaves alone
RerunFrame ==
    UNCHANGED <<PTDF_supplied, available_power, numerical_circuit, srap_ratings, options,
                multi_contingency, base_flow, t, cidx, last, res, reportVars, tasks, solver,
                numVars>>

\* the first call of analyze
AnalyzeFirst ==
    /\ rerun.stage = 0
    /\ \E c1 \in StudyCases1, c2 \in StudyCases2 :
          LET a == Args(<<1, 2>>, <<c1[1], c2[1]>>, <<c1[2], c2[2]>>)
              out == analyze(entries, PTDF, srap_used_power, a)
          IN  /\ entries' = out.entries
              /\ PTDF' = out.PTDF
              /\ srap_used_power' = out.used
              /\ rerun' = [stage |-> 1, args |-> a,
                           first |-> SubSeq(out.entries, Len(entries) + 1, Len(out.entries)),
                           first_study |-> out.study]
    /\ ncalls' = ncalls + 1
    /\ RerunFrame

\* the second call of analyze, with the arguments of the first
AnalyzeAgain ==
    /\ rerun.stage = 1
    /\ LET out == analyze(entries, PTDF, srap_used_power, rerun.args)
       IN  /\ entries' = out.entries
           /\ PTDF' = out.PTDF
           /\ srap_used_power' = out.used
           /\ rerun' = [stage |-> 2, args |-> rerun.args, first |-> rerun.first,
                        first_study |-> rerun.first_study,
                        second |-> SubSeq(out.entries, Len(entries) + 1, Len(out.entries)),
                        second_study |-> out.study]
    /\ ncalls' = ncalls + 1
    /\ RerunFrame

NextRerun == AnalyzeFirst \/ AnalyzeAgain

SpecRerun == InitRerun /\ [][NextRerun]_vars

----------------------------------------------------------------------------
(* Parallel tasks, one per (time step, contingency group): each calls analyze
   on a report and a ledger of its own; PTDF, the MLODF factors and the
   available power are the same objects for all *)

Tasks == {1, 2}

\* the arguments of task k: time step k - 1, the first contingency group
TaskArgs(k) ==
    [Args(<<1, 2>>, <<tasks[k].c1[1], tasks[k].c2[1]>>, <<tasks[k].c1[2], tasks[k].c2[2]>>)
        EXCEPT !.t = k - 1]

InitTasks ==
    /\ entries = <<>>
    /\ PTDF \in StudyPtdfs
    /\ PTDF_supplied = PTDF
    /\ srap_used_power = ZeroLedger
    /\ available_power = <<3, 30>>
    /\ numerical_circuit = [rates |-> <<100, 100>>, contingency_rates |-> <<120, 120>>]
    /\ srap_ratings = <<140, 140>>
    /\ \E u \in BOOLEAN : options = Options(u, 0, 0, FALSE, TRUE)
    /\ multi_contingency = <<StudyGroups[1]>>
    /\ base_flow = <<110, 80>>
    /\ t = 0
    /\ cidx = 0
    /\ ncalls = 0
    /\ last = NoStudy
    /\ res = NoRes
    /\ NoReportOps
    /\ rerun = NoRerun
    /\ solver = NoSrap
    /\ NoNum
    /\ tasks \in [Tasks -> [done : {FALSE}, entries : {<<>>}, used : {ZeroLedger},
                             c1 : StudyCases1, c2 : StudyCases2]]

\* task k runs its call of analyze; the call is one step (the interpreter
\* runs one thread at a time, and a process pool runs whole calls)
RunTask ==
    \E k \in Tasks :
        /\ ~tasks[k].done
        /\ LET out == analyze(tasks[k].entries, PTDF, tasks[k].used, TaskArgs(k))
           IN  /\ PTDF' = out.PTDF
               /\ tasks' = [tasks EXCEPT ![k].done = TRUE, ![k].entries = out.entries,
                                         ![k].used = out.used]
        /\ ncalls' = ncalls + 1
        /\ UNCHANGED <<entries, srap_used_power, PTDF_supplied, available_power,
                       numerical_circuit, srap_ratings, options, multi_contingency,
                       base_flow, t, cidx, last, res, reportVars, rerun, solver,
                       numVars>>

NextTasks == RunTask

SpecTasks == InitTasks /\ [][NextTasks]_vars

----------------------------------------------------------------------------
(* Calls of is_solvable on one ledger, as analyze makes them: a compensated
   row, its thresholded indices, the signed flow, the rating to reach, the
   power budget, the available power, the branch and top_n *)

MaxSrapCalls == 2

\* compensated sensitivity rows
SrapRows == { <<2, 1>>, <<-1, 2>>, <<-1, -2>>, <<0, 0>> }

SrapFlows == {-125, 115, 125}

\* srap_max_power
SrapBudgets == {4, 20, 1400}

InitSrap ==
    /\ entries = <<>>
    /\ PTDF = << <<2, 1>>, <<1, 1>> >>
    /\ PTDF_supplied = PTDF
    /\ srap_used_power = ZeroLedger
    /\ available_power \in { <<3, 30>>, <<-2, 30>>, <<3, 0>> }
    /\ numerical_circuit = [rates |-> <<100, 100>>, contingency_rates |-> <<120, 120>>]
    /\ srap_ratings = <<140, 140>>
    /\ options = Options(TRUE, 0, 0, FALSE, TRUE)
    /\ multi_contingency = <<StudyGroups[1]>>
    /\ base_flow = <<80, 80>>
    /\ t = 0
    /\ cidx = 0
    /\ ncalls = 0
    /\ last = NoStudy
    /\ res = NoRes
    /\ NoReportOps
    /\ NoAux

\* buses_for_srap.is_solvable(c_flow, rating, srap_pmax_mw, available_power,
\* branch_idx, top_n, srap_used_power)
IsSolvable ==
    /\ ncalls < MaxSrapCalls
    /\ \E m \in Branches, PTDFc \in SrapRows, c_flow \in SrapFlows,
          srap_pmax_mw \in SrapBudgets, top_n \in {1, 5} :
          LET rating == numerical_circuit.contingency_rates[m]
              out == is_solvable(PTDFc, get_sparse_array_numba(PTDFc), c_flow, rating,
                                 srap_pmax_mw, available_power, m, top_n, srap_used_power)
          IN  /\ srap_used_power' = out.used
              /\ solver' = [called |-> TRUE, branch_idx |-> m, PTDFc |-> PTDFc,
                            c_flow |-> c_flow, rating |-> rating,
                            srap_pmax_mw |-> srap_pmax_mw, top_n |-> top_n,
                            before |-> srap_used_power, solved |-> out.solved,
                            power |-> out.power]
    /\ ncalls' = ncalls + 1
    /\ UNCHANGED <<entries, PTDF, PTDF_supplied, available_power, numerical_circuit,
                   srap_ratings, options, multi_contingency, base_flow, t, cidx, last, res,
                   reportVars, rerun, tasks, numVars>>

NextSrap == IsSolvable

SpecSrap == InitSrap /\ [][NextSrap]_vars

----------------------------------------------------------------------------
(* FDPF, the fast decoupled power flow. The linear solves and the mismatch
   evaluation are not modelled: every evaluation yields some pair of norms,
   nan included. Norms and tol are in units of tol. *)

MaxIt == 3

tol == 1

\* nan, for which every comparison is false
NaN == -1

\* the values norm(dP, Inf) and norm(dQ, Inf) may take
Norms == {0, 1, 4, NaN}

\* "norm < tol"
BelowTol(x) == x # NaN /\ x < tol

\* "normP < tol and normQ < tol"
BothBelowTol(normP, normQ) == BelowTol(normP) /\ BelowTol(normQ)

\* norm(r_[dP, dQ], Inf)
NormOfBoth(normP, normQ) ==
    IF normP = NaN \/ normQ = NaN THEN NaN
    ELSE IF normP >= normQ THEN normP ELSE normQ

\* mutant of Continues: the loop goes on whether converged or not
Continues_IgnoresConverged(converged, iter_, max_it) == iter_ < max_it

\* "while not converged and iter_ < max_it"
Continues(converged, iter_, max_it) == ~converged /\ iter_ < max_it

\* everything but fdpf
FdpfFrame ==
    UNCHANGED <<entries, PTDF, PTDF_supplied, srap_used_power, available_power,
                numerical_circuit, srap_ratings, options, multi_contingency, base_flow,
                t, cidx, ncalls, last, res, reportVars, rerun, tasks, solver, lp>>

\* FDPF is called: the arguments max_it and the number of block-1 buses
InitFdpf ==
    /\ entries = <<>>
    /\ PTDF = << <<2, 1>>, <<1, 1>> >>
    /\ PTDF_supplied = PTDF
    /\ srap_used_power = ZeroLedger
    /\ available_power = <<3, 30>>
    /\ numerical_circuit = [rates |-> <<100, 100>>, contingency_rates |-> <<120, 120>>]
    /\ srap_ratings = <<140, 140>>
    /\ options = Options(TRUE, 0, 0, FALSE, TRUE)
    /\ multi_contingency = <<StudyGroups[1]>>
    /\ base_flow = <<80, 80>>
    /\ t = 0
    /\ cidx = 0
    /\ ncalls = 0
    /\ last = NoStudy
    /\ res = NoRes
    /\ NoReportOps
    /\ rerun = NoRerun
    /\ tasks = NoTasks
    /\ solver = NoSrap
    /\ lp = NoLp
    /\ \E n \in {0, 2}, mi \in 0..MaxIt :
          fdpf = [pc |-> "start", n_block1 |-> n, max_it |-> mi, iter_ |-> 0,
                  converged |-> FALSE, normP |-> 0, normQ |-> 0, normF |-> 0,
                  Va_updates |-> 0, Vm_updates |-> 0]

\* lines 31-65 and 113-116: the initial mismatch, and converged and iter_ set
FdpfStart ==
    /\ fdpf.pc = "start"
    /\ IF fdpf.n_block1 > 0
       THEN \E p \in Norms, q \in Norms :
               fdpf' = [fdpf EXCEPT !.pc = "while", !.normP = p, !.normQ = q,
                                    !.converged = BothBelowTol(p, q), !.iter_ = 0]
       ELSE fdpf' = [fdpf EXCEPT !.pc = "return", !.converged = TRUE, !.iter_ = 0,
                                 !.normF = 0]
    /\ FdpfFrame

\* one pass of the loop, lines 66-108: the P half-iteration updates Va and
\* evaluates the mismatch; unless both norms are below tol, the Q
\* half-iteration updates Vm and evaluates the mismatch again
FdpfPass ==
    /\ fdpf.pc = "while"
    /\ Continues(fdpf.converged, fdpf.iter_, fdpf.max_it)
    /\ \E p1 \in Norms, q1 \in Norms, p2 \in Norms, q2 \in Norms :
          IF BothBelowTol(p1, q1)
          THEN fdpf' = [fdpf EXCEPT !.iter_ = @ + 1, !.Va_updates = @ + 1,
                                    !.normP = p1, !.normQ = q1, !.converged = TRUE]
          ELSE fdpf' = [fdpf EXCEPT !.iter_ = @ + 1, !.Va_updates = @ + 1,
                                    !.Vm_updates = @ + 1,
                                    !.normP = p2, !.normQ = q2,
                                    !.converged = IF BothBelowTol(p2, q2) THEN TRUE ELSE @]
    /\ FdpfFrame

\* the loop ends, lines 110-130: normF, and the results are returned
FdpfReturn ==
    /\ fdpf.pc = "while"
    /\ ~Continues(fdpf.converged, fdpf.iter_, fdpf.max_it)
    /\ fdpf' = [fdpf EXCEPT !.pc = "return", !.normF = NormOfBoth(fdpf.normP, fdpf.normQ)]
    /\ FdpfFrame

NextFdpf == FdpfStart \/ FdpfPass \/ FdpfReturn

SpecFdpf == InitFdpf /\ [][NextFdpf]_vars

\* the call runs on: no step of FDPF waits for anything
SpecFdpfFair == SpecFdpf /\ WF_vars(NextFdpf)

----------------------------------------------------------------------------
(* LpVar, LpExp and LpCst: linear expressions and the constraints built from
   them. An expression is [terms, offset], terms a function from the variables
   it holds to their coefficients (the dict). *)

MaxLpOps == 3

\* the names of the LpVar objects
LpVars == {"x", "y"}

\* the scalars of the operations
LpScalars == {-1, 2, 3}

\* "variable is None"
None == "None"

\* LpExp.__init__
LpExp(variable, coefficient, offset) ==
    [terms |-> IF variable # None THEN [v \in {variable} |-> coefficient]
               ELSE [v \in {} |-> 0],
     offset |-> offset]

\* LpExp.copy
copy(self) == [terms |-> [v \in DOMAIN self.terms |-> self.terms[v]], offset |-> self.offset]

\* LpExp.__add__, other an LpExp: new_expr = LpExp() has the offset 0.0 and
\* gets a copy of self.terms; the offset of other is added to it and the terms
\* of other are added in
LpExp_add(self, other) ==
    [terms |-> [v \in DOMAIN self.terms \cup DOMAIN other.terms |->
                  IF v \in DOMAIN self.terms
                  THEN IF v \in DOMAIN other.terms THEN self.terms[v] + other.terms[v]
                       ELSE self.terms[v]
                  ELSE other.terms[v]],
     offset |-> 0 + other.offset]

\* LpExp.__add__, other an int or float
LpExp_add_scalar(self, other) == [terms |-> self.terms, offset |-> 0 + other]

\* LpExp.__mul__: new_expr = LpExp() has the offset 0.0, which is multiplied
\* by other; the coefficients of self are multiplied by other
LpExp_mul(self, other) ==
    [terms |-> [v \in DOMAIN self.terms |-> self.terms[v] * other],
     offset |-> 0 * other]

\* LpExp.__sub__, other an LpExp: new_expr is a copy of self
LpExp_sub(self, other) ==
    [terms |-> [v \in DOMAIN copy(self).terms \cup DOMAIN other.terms |->
                  IF v \in DOMAIN copy(self).terms
                  THEN IF v \in DOMAIN other.terms
                       THEN copy(self).terms[v] - other.terms[v]
                       ELSE copy(self).terms[v]
                  ELSE 0 - other.terms[v]],
     offset |-> copy(self).offset - other.offset]

\* LpExp.__sub__, other an int or float
LpExp_sub_scalar(self, other) ==
    [terms |-> copy(self).terms, offset |-> copy(self).offset - other]

\* LpCst.__init__
LpCst(linear_expression, sense, coefficient) ==
    [linear_expression |-> linear_expression, sense |-> sense, coefficient |-> coefficient]

\* LpExp.__le__, __ge__ and __eq__ (sense "<=", ">=", "=="), other an int or
\* float
LpExp_compare(self, sense, other) == LpCst(self, sense, other - self.offset)

\* everything but lp
LpFrame ==
    UNCHANGED <<entries, PTDF, PTDF_supplied, srap_used_power, available_power,
                numerical_circuit, srap_ratings, options, multi_contingency, base_flow,
                t, cidx, ncalls, last, res, reportVars, rerun, tasks, solver, fdpf>>

\* two expressions built by LpExp(variable, coefficient, offset)
InitLp ==
    /\ entries = <<>>
    /\ PTDF = << <<2, 1>>, <<1, 1>> >>
    /\ PTDF_supplied = PTDF
    /\ srap_used_power = ZeroLedger
    /\ available_power = <<3, 30>>
    /\ numerical_circuit = [rates |-> <<100, 100>>, contingency_rates |-> <<120, 120>>]
    /\ srap_ratings = <<140, 140>>
    /\ options = Options(TRUE, 0, 0, FALSE, TRUE)
    /\ multi_contingency = <<StudyGroups[1]>>
    /\ base_flow = <<80, 80>>
    /\ t = 0
    /\ cidx = 0
    /\ ncalls = 0
    /\ last = NoStudy
    /\ res = NoRes
    /\ NoReportOps
    /\ rerun = NoRerun
    /\ tasks = NoTasks
    /\ solver = NoSrap
    /\ fdpf = NoFdpf
    /\ \E o1 \in {0, 3}, v2 \in LpVars, o2 \in {0, 5} :
          lp = [op |-> "init", n |-> 0, e1 |-> LpExp("x", 1, o1), e2 |-> LpExp(v2, 2, o2)]

\* the operation op has been applied to a (and b, or the scalar k), giving out,
\* which is the new e1
LpDone(op, a, b, k, out) ==
    lp' = [op |-> op, n |-> lp.n + 1, e1 |-> out, e2 |-> lp.e2, a |-> a, b |-> b, k |-> k]

\* e1 = e1 + e2
LpAdd ==
    /\ lp.op # "none" /\ lp.n < MaxLpOps
    /\ LpDone("add", lp.e1, lp.e2, 0, LpExp_add(lp.e1, lp.e2))
    /\ LpFrame

\* e1 = e1 + k
LpAddScalar ==
    /\ lp.op # "none" /\ lp.n < MaxLpOps
    /\ \E k \in LpScalars : LpDone("add_scalar", lp.e1, lp.e2, k, LpExp_add_scalar(lp.e1, k))
    /\ LpFrame

\* e1 = e1 - e2
LpSub ==
    /\ lp.op # "none" /\ lp.n < MaxLpOps
    /\ LpDone("sub", lp.e1, lp.e2, 0, LpExp_sub(lp.e1, lp.e2))
    /\ LpFrame

\* e1 = e1 - k
LpSubScalar ==
    /\ lp.op # "none" /\ lp.n < MaxLpOps
    /\ \E k \in LpScalars : LpDone("sub_scalar", lp.e1, lp.e2, k, LpExp_sub_scalar(lp.e1, k))
    /\ LpFrame

\* e1 = k * e1
LpMul ==
    /\ lp.op # "none" /\ lp.n < MaxLpOps
    /\ \E k \in LpScalars : LpDone("mul", lp.e1, lp.e2, k, LpExp_mul(lp.e1, k))
    /\ LpFrame

\* the constraint e1 <= c, e1 >= c or e1 == c is built
LpCompare ==
    /\ lp.op # "none" /\ lp.n < MaxLpOps
    /\ \E sense \in {"<=", ">=", "=="}, c \in {0, 10} :
          lp' = [op |-> "compare", n |-> lp.n + 1, e1 |-> lp.e1, e2 |-> lp.e2,
                 a |-> lp.e1, b |-> lp.e2, k |-> c,
                 cst |-> LpExp_compare(lp.e1, sense, c)]
    /\ LpFrame

NextLp == LpAdd \/ LpAddScalar \/ LpSub \/ LpSubScalar \/ LpMul \/ LpCompare

SpecLp == InitLp /\ [][NextLp]_vars

\* the tasks run one after the other, in task order, on one report and one
\* ledger, from the PTDF matrix supplied
SequentialRun ==
    LET o1 == analyze(<<>>, PTDF_supplied, ZeroLedger, TaskArgs(1))
    IN  analyze(o1.entries, o1.PTDF, o1.used, TaskArgs(2))

----------------------------------------------------------------------------
(* What the claims speak of *)

\* the branches studied by the last analyze call
Studied == { last.study[i] : i \in 1..Len(last.study) }

\* the branches that passed the "affected" gate in the last call
Reported == { n \in Studied : n.affected }

\* the row the last call appended for a studied branch that it emitted
Emitted == { n \in Reported : n.rows_after > n.rows_before }

RowOf(n) == entries[n.rows_after]

\* the rows appended by the last call
NewRows == SubSeq(entries, Len(last.before) + 1, Len(entries))

IsBase(row) == row.contingency_name = "Base"

IsContingency(row) == row.contingency_name # "Base"

\* x in the interval (lo, hi]
InOC(x, lo, hi) == PuLt(lo, x) /\ PuLe(x, hi)

\* the grade of the first matching interval of c, for the thresholds nx, srap, top
FirstInterval(c, nx, srap, top) ==
    CASE InOC(c, PuInt(1), nx) -> 1
      [] ~InOC(c, PuInt(1), nx) /\ InOC(c, nx, srap) -> 2
      [] ~InOC(c, PuInt(1), nx) /\ ~InOC(c, nx, srap) /\ InOC(c, srap, top) -> 3
      [] ~InOC(c, PuInt(1), nx) /\ ~InOC(c, nx, srap) /\ ~InOC(c, srap, top)
           /\ PuLt(top, c) -> 4
      [] OTHER -> 0

GradeMsgOv(g) == IF g = 1 THEN "Overload acceptable" ELSE "Overload not acceptable"

GradeMsgSrap(g) ==
    CASE g = 1 -> "SRAP not needed"
      [] g = 2 -> "SRAP applicable"
      [] OTHER -> "SRAP not applicable"

BaseRating(n) == numerical_circuit.rates[n.m]
ContRating(n) == numerical_circuit.contingency_rates[n.m]
SrapRating(n) == srap_ratings[n.m]

\* a reported branch is graded by the intervals whose thresholds are nx, srap
\* and srap + srap_deadband/100, with the messages of its grade
GradedBy(n, nx, srap) ==
    LET g == FirstInterval(n.c_load, nx, srap, PuAddFrac(srap, options.srap_deadband, 100))
    IN  /\ n.ov_status = g
        /\ g \in 1..4
        /\ n.msg_ov = GradeMsgOv(g)
        /\ n.msg_srap = GradeMsgSrap(g)
        /\ n \in Emitted => RowOf(n).msg_srap = GradeMsgSrap(g)

\* C1, as stated: every reported branch is graded by the first matching interval
\* of c_load with rate_nx = contingency_rating / base_rating and
\* rate_srap = srap_rating / base_rating.
C1_Original ==
    \A n \in Reported :
        GradedBy(n, Pu(ContRating(n), 0, BaseRating(n), 0),
                    Pu(SrapRating(n), 0, BaseRating(n), 0))

\* C1, amended: every reported branch gets exactly one grade in 1..4, that of
\* the first matching interval of c_load among (1, rate_nx], (rate_nx, rate_srap],
\* (rate_srap, rate_srap + srap_deadband/100] and above, with the messages of that
\* grade, where rate_nx = contingency_rating / (base_rating + 1e-9) and
\* rate_srap = srap_rating / (base_rating + 1e-9).
C1_GradeByGuardedIntervals ==
    \A n \in Reported :
        GradedBy(n, DivEps(ContRating(n), BaseRating(n)),
                    DivEps(SrapRating(n), BaseRating(n)))

\* a branch graded 3 strictly inside its interval, rated 100 / 120 / 140
C1_Witness ==
    \E n \in Emitted :
        /\ n.ov_status = 3
        /\ ContRating(n) = 120 /\ SrapRating(n) = 140
        /\ PuEq(n.c_load, Pu(150, 0, 100, 1))

\* the number of contingency rows the last call appended for branch m
ContingencyRowsFor(m) ==
    Cardinality({ i \in 1..Len(NewRows) :
                    IsContingency(NewRows[i]) /\ NewRows[i].base_name = branch_names[m] })

\* the four conditions of the gate, on the inputs of a studied branch
FourConditions(n) ==
    /\ n.cf # n.bf
    /\ PuLt(PuInt(options.contingency_deadband),
            PuAddFrac(DivEps(Abs(n.cf), Abs(n.bf)), -1, 1))
    /\ PuLt(PuInt(1), n.c_load)
    /\ Abs(n.cf) > Abs(n.bf)

\* C2: analyze appends a contingency row for a monitored branch only if the
\* contingency flow differs from the base flow, the relative increase
\* |c_flow|/(|b_flow|+eps) - 1 exceeds contingency_deadband, the loading exceeds 1
\* and |c_flow| > |b_flow|; a branch with c_load <= 1 gets no contingency row.
C2_RowOnlyIfAffected ==
    \A n \in Studied :
        /\ ContingencyRowsFor(n.m) > 0 => FourConditions(n)
        /\ PuLe(n.c_load, PuInt(1)) => ContingencyRowsFor(n.m) = 0
        /\ ContingencyRowsFor(n.m) = n.rows_after - n.rows_before

\* a branch whose flow grew by more than the deadband but whose loading is
\* exactly 1 is studied and gets no row, while the call is one that emits rows
C2_Witness ==
    \E n \in Studied :
        /\ options.detailed_massive_report
        /\ Abs(n.cf) > Abs(n.bf)
        /\ PuEq(n.c_load, PuInt(1))
        /\ ContingencyRowsFor(n.m) = 0

\* C3: the remedial-action search is invoked for a reported branch iff using_srap
\* and the grade is 2 or 3; otherwise the usage ledger is left unchanged and the
\* row has solved_by_srap = FALSE and a post-SRAP flow equal to the
\* post-contingency flow.  Rated 100/120/140 with flow 145 and srap_deadband 0:
\* grade 4, 'SRAP not applicable', not solved.
C3_SearchOnlyForGrades2And3 ==
    /\ \A n \in Reported :
          /\ n.searched <=> (options.using_srap /\ n.ov_status \in {2, 3})
          /\ ~(options.using_srap /\ n.ov_status \in {2, 3}) =>
                /\ n.used_after = n.used_before
                /\ n.PTDF_after = n.PTDF_before
                /\ n \in Emitted =>
                      /\ RowOf(n).solved_by_srap = FALSE
                      /\ RowOf(n).post_srap_flow = RowOf(n).post_contingency_flow
                      /\ RowOf(n).srap_power = 0
          /\ ( /\ BaseRating(n) = 100 /\ ContRating(n) = 120 /\ SrapRating(n) = 140
               /\ Abs(n.cf) = 145 /\ PuEq(n.c_load, DivEps(145, 100))
               /\ options.srap_deadband = 0 ) =>
                /\ n.ov_status = 4
                /\ n.msg_srap = "SRAP not applicable"
                /\ ~n.searched
                /\ n \in Emitted => RowOf(n).solved_by_srap = FALSE
    /\ (\A n \in Reported : ~(options.using_srap /\ n.ov_status \in {2, 3})) =>
          (last.study # <<>> => srap_used_power = last.study[1].used_before)

\* the scenario of the claim, with using_srap set and a ledger that earlier
\* searches have written to
C3_Witness ==
    \E n \in Emitted :
        /\ options.using_srap /\ options.srap_deadband = 0
        /\ Abs(n.cf) = 145 /\ n.ov_status = 4
        /\ n.used_before # ZeroLedger
        /\ RowOf(n).solved_by_srap = FALSE

\* C4: for a grade-2 branch evaluated with using_srap the overload message
\* becomes 'Overload acceptable' exactly when the search reports solved, and
\* solved_by_srap is the search's result; over all rows, the message is
\* 'Overload acceptable' only for grade 1 or for grade 2 solved by the search; a
\* grade-3 row keeps 'Overload not acceptable' / 'SRAP not applicable' even when
\* its search reports solved.
C4_AcceptableOnlyGrade1OrSolvedGrade2 ==
    /\ \A n \in Emitted :
          /\ n.searched => RowOf(n).solved_by_srap = n.search_solved
          /\ (n.searched /\ n.ov_status = 2) =>
                (RowOf(n).msg_ov = "Overload acceptable" <=> n.search_solved)
          /\ RowOf(n).msg_ov = "Overload acceptable" =>
                (n.ov_status = 1 \/ (n.ov_status = 2 /\ n.search_solved))
          /\ n.ov_status = 3 =>
                /\ RowOf(n).msg_ov = "Overload not acceptable"
                /\ RowOf(n).msg_srap = "SRAP not applicable"
    /\ \A i \in 1..Len(entries) :
          entries[i].msg_ov = "Overload acceptable" =>
                \/ entries[i].msg_srap = "SRAP not needed"
                \/ (entries[i].msg_srap = "SRAP applicable" /\ entries[i].solved_by_srap)

\* the report holds a grade-2 row rated 100/120/140 with flow 125 that the
\* search solved with the 5 MW required, and the last call emitted a grade-3 row
\* whose search reported solved
C4_Witness ==
    /\ \E i \in 1..Len(entries) :
          /\ entries[i].post_contingency_flow = 125 /\ entries[i].contingency_rating = 120
          /\ entries[i].msg_srap = "SRAP applicable" /\ entries[i].solved_by_srap
          /\ entries[i].msg_ov = "Overload acceptable" /\ entries[i].srap_power = 5
    /\ \E n \in Emitted : n.ov_status = 3 /\ n.search_solved /\ RowOf(n).solved_by_srap

\* MLODF[m, j]: the entry of row m in column j of the sparse matrix
RECURSIVE MlodfEntry(_, _, _, _)
MlodfEntry(csc, m, j, i) ==
    IF i >= csc.indptr[j + 1] THEN 0
    ELSE (IF csc.indices[i + 1] = m THEN csc.data[i + 1] ELSE 0)
         + MlodfEntry(csc, m, j, i + 1)

\* sum over the outaged positions j..n of MLODF[m, j] * P[outaged[j]][b]
RECURSIVE Compensation(_, _, _, _, _, _)
Compensation(csc, bd, P, m, b, j) ==
    IF j > Len(bd) THEN 0
    ELSE MlodfEntry(csc, m, j, csc.indptr[j]) * P[bd[j]][b]
         + Compensation(csc, bd, P, m, b, j + 1)

\* C5: get_ptdf_comp returns, for every bus b, PTDF[m,b] + sum over the outaged
\* positions j of MLODF[m,j] * PTDF[outaged[j],b], PTDF being the matrix as it
\* was supplied to the call; also when m is itself outaged and when several
\* outaged columns have a nonzero in row m.
C5_Claim ==
    res.called =>
        LET g == multi_contingency[1]
        IN  \A b \in Buses :
                res.value[b] = res.before[res.m][b]
                               + Compensation(g.mlodf_factors, g.branch_indices,
                                              res.before, res.m, b, 1)

\* C6: after any sequence of analyze calls (which call get_ptdf_comp on the SRAP
\* path) the PTDF matrix and the MLODF matrices equal their initial values.
C6_Claim ==
    /\ PTDF = PTDF_supplied
    /\ multi_contingency = StudyGroups

\* C7: a reported branch whose ratings violate
\* base_rating <= contingency_rating <= srap_rating gets grade 0 and the
\* messages 'Error' / 'Error'.
C7_Claim ==
    \A n \in Reported :
        ~(BaseRating(n) <= ContRating(n) /\ ContRating(n) <= SrapRating(n)) =>
            /\ n.ov_status = 0
            /\ n.msg_ov = "Error"
            /\ n.msg_srap = "Error"

\* C8: both deadbands are percentages applied as fractions: a branch passes the
\* gate when, the other three conditions holding, its relative flow increase
\* exceeds contingency_deadband/100, and not otherwise; grade 4 starts above
\* rate_srap + srap_deadband/100.
C8_Claim ==
    \A n \in Studied :
        /\ n.affected <=>
              /\ n.cf # n.bf
              /\ PuLt(Pu(options.contingency_deadband, 0, 100, 0),
                      PuAddFrac(DivEps(Abs(n.cf), Abs(n.bf)), -1, 1))
              /\ PuLt(PuInt(1), n.c_load)
              /\ Abs(n.cf) > Abs(n.bf)
        /\ n.affected =>
              (n.ov_status = 4 <=>
                  PuLt(PuAddFrac(DivEps(SrapRating(n), BaseRating(n)),
                                 options.srap_deadband, 100), n.c_load))

\* C9, as stated: with rate_nx = contingency_rating / base_rating and
\* rate_srap = srap_rating / base_rating, a reported branch with c_load = rate_nx
\* gets grade 1, with c_load = rate_srap grade 2, and with
\* c_load = rate_srap + srap_deadband/100 grade 3.
C9_Original ==
    \A n \in Reported :
        LET nx == Pu(ContRating(n), 0, BaseRating(n), 0)
            srap == Pu(SrapRating(n), 0, BaseRating(n), 0)
            top == PuAddFrac(srap, options.srap_deadband, 100)
        IN  /\ PuEq(n.c_load, nx) => n.ov_status = 1
            /\ PuEq(n.c_load, srap) => n.ov_status = 2
            /\ PuEq(n.c_load, top) => n.ov_status = 3

\* C9, amended: with rate_nx = contingency_rating / (base_rating + 1e-9) and
\* rate_srap = srap_rating / (base_rating + 1e-9), a reported branch on a
\* threshold gets the lowest grade whose interval holds the threshold:
\* c_load = rate_nx gets grade 1; c_load = rate_srap gets grade 2, or grade 1 when
\* rate_srap <= rate_nx; c_load = rate_srap + srap_deadband/100 gets grade 3, or
\* grade 2 when srap_deadband is 0, or grade 1 when that threshold is <= rate_nx.
C9_LowerGradeOnGuardedBoundaries ==
    \A n \in Reported :
        LET nx == DivEps(ContRating(n), BaseRating(n))
            srap == DivEps(SrapRating(n), BaseRating(n))
            top == PuAddFrac(srap, options.srap_deadband, 100)
        IN  /\ PuEq(n.c_load, nx) => n.ov_status = 1
            /\ PuEq(n.c_load, srap) =>
                  n.ov_status = (IF PuLe(srap, nx) THEN 1 ELSE 2)
            /\ PuEq(n.c_load, top) =>
                  n.ov_status = (IF PuLe(top, nx) THEN 1
                                 ELSE IF options.srap_deadband = 0 THEN 2 ELSE 3)

\* a branch rated 100/120/140 whose loading is exactly
\* 140/(100 + 1e-9) + 10/100 is reported with grade 3
C9_Witness ==
    \E n \in Reported :
        /\ ContRating(n) = 120 /\ SrapRating(n) = 140
        /\ options.srap_deadband = 10
        /\ PuEq(n.c_load, PuAddFrac(DivEps(140, 100), 10, 100))
        /\ n.ov_status = 3

\* the number of 'Base' rows for branch m among the rows of the sequence rows
\* that carry time index time
BaseRowsFor(rows, m, time) ==
    Cardinality({ i \in 1..Len(rows) :
                    /\ IsBase(rows[i])
                    /\ rows[i].base_name = branch_names[m]
                    /\ rows[i].time_index = time })

\* C10: an analyze call appends a 'Base' row for monitored branch m iff
\* contingency_idx = 0 and |base_flow[m]| exceeds the base rating of m, so that
\* after each call of a time step the report holds exactly one 'Base' row of that
\* time step per base-overloaded monitored branch; every such row has zero
\* post-contingency and post-SRAP flows and loadings and SRAP power, the messages
\* 'Overload not acceptable' / 'SRAP not applicable' and solved_by_srap = FALSE.
C10_BaseRowsOncePerTimeStep ==
    /\ last.contingency_idx >= 0 =>
          \A m \in Branches :
              LET over == Abs(last.base_flow[m]) > numerical_circuit.rates[m]
              IN  /\ BaseRowsFor(NewRows, m, last.t)
                        = (IF last.contingency_idx = 0 /\ over THEN 1 ELSE 0)
                  /\ BaseRowsFor(entries, m, last.t) = (IF over THEN 1 ELSE 0)
    /\ \A i \in 1..Len(entries) :
          IsBase(entries[i]) =>
              /\ entries[i].post_contingency_flow = 0
              /\ entries[i].post_srap_flow = 0
              /\ PuEq(entries[i].post_contingency_loading, PuInt(0))
              /\ PuEq(entries[i].post_srap_loading, PuInt(0))
              /\ entries[i].srap_power = 0
              /\ entries[i].msg_ov = "Overload not acceptable"
              /\ entries[i].msg_srap = "SRAP not applicable"
              /\ entries[i].solved_by_srap = FALSE

\* the second call of a time step in which both monitored branches are above
\* their base rating: the report holds their two 'Base' rows, and the call added
\* contingency rows only
C10_Witness ==
    /\ last.contingency_idx = 1
    /\ \A m \in Branches : Abs(last.base_flow[m]) > numerical_circuit.rates[m]
    /\ Len(NewRows) > 0
    /\ \A m \in Branches : BaseRowsFor(entries, m, last.t) = 1

----------------------------------------------------------------------------
(* C11 .. C13, C19: the report as a log, merge, the export and += *)

IsPrefix(p, s) == Len(p) <= Len(s) /\ SubSeq(s, 1, Len(p)) = p

\* the number of rows the last operation has appended to its report so far,
\* counted from what the operation was given
AppendedByLastOp ==
    CASE lastop.op \in {"add_entry", "add"} -> 1
      [] lastop.op = "merge" -> size(lastop.before[lastop.other])
      [] lastop.op = "iadd" ->
            IF iadd.running THEN iadd.i ELSE size(lastop.before[lastop.other])
      [] lastop.op = "analyze" -> Len(NewRows)

\* C11: the report is an append-only log in insertion order: after add_entry,
\* add, merge, += and analyze the rows every report held before the operation
\* are still there, unchanged, as a prefix; the size of the report operated on
\* is its size before plus the number of rows appended; add_entry and add grow
\* it by exactly one row, also when the row is a duplicate.
C11_AppendOnlyLog ==
    lastop.op # "none" =>
        /\ \A r \in Reports : IsPrefix(lastop.before[r], Rep(r))
        /\ size(Rep(lastop.self)) = size(lastop.before[lastop.self]) + AppendedByLastOp
        /\ lastop.op \in {"add_entry", "add"} =>
              size(Rep(lastop.self)) = size(lastop.before[lastop.self]) + 1

\* a duplicate row has been appended by add_entry to a report that analyze or
\* another operation had filled
C11_Witness ==
    /\ lastop.op = "add_entry"
    /\ size(lastop.before[lastop.self]) >= 2
    /\ \E i \in 1..size(lastop.before[lastop.self]) :
          lastop.before[lastop.self][i] = Rep(lastop.self)[size(Rep(lastop.self))]

\* C12: merge is concatenation: after A.merge(B) the rows of A are its former
\* rows followed by the former rows of B in their order, nothing dropped or
\* sorted; B, when it is another report, and every third report are unchanged;
\* and merging B then C into A gives the rows of merging C into B and then B
\* into A.
C12_MergeIsConcatenation ==
    /\ lastop.op = "merge" =>
          /\ Rep(lastop.self) = lastop.before[lastop.self] \o lastop.before[lastop.other]
          /\ \A r \in Reports \ {lastop.self} : Rep(r) = lastop.before[r]
    /\ \A a, b, c \in Reports :
          merge(merge(Rep(a), Rep(b)), Rep(c)) = merge(Rep(a), merge(Rep(b), Rep(c)))

\* another report, holding a row that self already held, has been merged into
\* a report with rows
C12_Witness ==
    /\ lastop.op = "merge"
    /\ lastop.other # lastop.self
    /\ \E i \in 1..size(lastop.before[lastop.self]),
          j \in 1..size(lastop.before[lastop.other]) :
          lastop.before[lastop.self][i] = lastop.before[lastop.other][j]
    /\ size(lastop.before[lastop.other]) >= 2

\* the text of the field of entry e that the header h names
FieldText(h, e) ==
    CASE h = "Time" -> StrInt(e.time_index)
      [] h = "Area 1" -> StrText(e.area_from)
      [] h = "Area 2" -> StrText(e.area_to)
      [] h = "Monitored" -> StrText(e.base_name)
      [] h = "Contingency" -> StrText(e.contingency_name)
      [] h = "Base rating (MW)" -> StrFloat(e.base_rating)
      [] h = "Contingency rating (MW)" -> StrFloat(e.contingency_rating)
      [] h = "SRAP rating (MW)" -> StrFloat(e.srap_rating)
      [] h = "Base flow (MW)" -> StrFloat(e.base_flow)
      [] h = "Post-Contingency flow (MW)" -> StrFloat(e.post_contingency_flow)
      [] h = "Post-SRAP flow (MW)" -> StrFloat(e.post_srap_flow)
      [] h = "Base loading (pu)" -> StrPu(e.base_loading)
      [] h = "Post-Contingency loading (pu)" -> StrPu(e.post_contingency_loading)
      [] h = "Post-SRAP loading (pu)" -> StrPu(e.post_srap_loading)
      [] h = "Overload" -> StrText(e.msg_ov)
      [] h = "SRAP availability" -> StrText(e.msg_srap)
      [] h = "SRAP Power (MW)" -> StrFloat(e.srap_power)
      [] h = "Solved with SRAP" -> StrBool(e.solved_by_srap)

\* C13: get_headers returns the 18 column names in the documented order, and
\* get_data is a matrix of size() rows and 18 columns whose cell (i, j) is the
\* string form of the field of the i-th entry that the j-th header names.
C13_ExportCellsFollowHeaders ==
    exported.done =>
        /\ exported.headers =
              <<"Time", "Area 1", "Area 2", "Monitored", "Contingency",
                "Base rating (MW)", "Contingency rating (MW)", "SRAP rating (MW)",
                "Base flow (MW)", "Post-Contingency flow (MW)", "Post-SRAP flow (MW)",
                "Base loading (pu)", "Post-Contingency loading (pu)",
                "Post-SRAP loading (pu)", "Overload", "SRAP availability",
                "SRAP Power (MW)", "Solved with SRAP">>
        /\ DOMAIN exported.data = 1..size(exported.rows)
        /\ \A i \in 1..size(exported.rows) :
              /\ DOMAIN exported.data[i] = 1..18
              /\ \A j \in 1..18 :
                    exported.data[i][j] = FieldText(exported.headers[j], exported.rows[i])

\* a report holding a base-case row of analyze and a row solved with SRAP,
\* whose two messages differ, has been exported
C13_Witness ==
    /\ exported.done
    /\ \E i, j \in 1..size(exported.rows) :
          /\ exported.rows[i].contingency_name = "Base"
          /\ exported.rows[j].solved_by_srap
          /\ exported.rows[j].msg_ov # exported.rows[j].msg_srap

\* C19: A += B ends, for any reports A and B, B being A itself included, and
\* leaves A with the rows A.merge(B) would give it; B, when it is another
\* report, is unchanged. (The loop appends one row a turn, so it ends with the
\* rows of merge only if it never appends more rows than B held.)
C19_Claim ==
    lastop.op = "iadd" =>
        /\ size(Rep(lastop.self)) <=
              size(merge(lastop.before[lastop.self], lastop.before[lastop.other]))
        /\ ~iadd.running =>
              Rep(lastop.self) = merge(lastop.before[lastop.self], lastop.before[lastop.other])
        /\ lastop.other # lastop.self => Rep(lastop.other) = lastop.before[lastop.other]

----------------------------------------------------------------------------
(* C14: no outaged branch *)

\* C14: when the contingency group has no outaged branch, the compensated
\* sensitivity returned for the monitored branch m is row m of the PTDF matrix
\* as it was handed to the call, entry for entry.
C14_NoOutageReturnsBaseRow ==
    (res.called /\ multi_contingency[1].branch_indices = <<>>) =>
        /\ res.value = res.before[res.m]
        /\ PTDF = res.before

\* get_ptdf_comp has been called a second time for a group without outage
C14_Witness ==
    /\ res.called
    /\ multi_contingency[1].branch_indices = <<>>
    /\ ncalls = 2
    /\ res.before[res.m] # res.before[3 - res.m]

----------------------------------------------------------------------------
(* C15: analyze repeated *)

\* what C15 compares of a row: the branch, the grade's two messages and the
\* three loadings
Outcome(row) ==
    [base_name |-> row.base_name, contingency_name |-> row.contingency_name,
     msg_ov |-> row.msg_ov, msg_srap |-> row.msg_srap,
     base_loading |-> row.base_loading,
     post_contingency_loading |-> row.post_contingency_loading,
     post_srap_loading |-> row.post_srap_loading]

\* C15: analyze called twice with the same inputs reports the same branches,
\* each with the same grade and messages and the same base-case,
\* post-contingency and post-SRAP loadings.
C15_Claim ==
    rerun.stage = 2 =>
        /\ Len(rerun.second) = Len(rerun.first)
        /\ \A i \in 1..Len(rerun.first) :
              Outcome(rerun.second[i]) = Outcome(rerun.first[i])

----------------------------------------------------------------------------
(* C16: the tasks *)

\* C16: whatever the order in which the tasks ran, once all are done the
\* private reports merged in task order hold the row sequence that the same
\* tasks give when run one after the other on a single report.
C16_Claim ==
    (\A k \in Tasks : tasks[k].done) =>
        merge(merge(<<>>, tasks[1].entries), tasks[2].entries) = SequentialRun.entries

----------------------------------------------------------------------------
(* C17, C18: the remedial search *)

\* what the last call of is_solvable recorded in the ledger for bus b
Recorded(b) ==
    srap_used_power[solver.branch_idx][b] - solver.before[solver.branch_idx][b]

\* the total the last call recorded: the accumulated correction
RECURSIVE SumRecorded(_)
SumRecorded(S) ==
    IF S = {} THEN 0
    ELSE LET b == CHOOSE x \in S : TRUE IN Recorded(b) + SumRecorded(S \ {b})

\* the headroom of bus b, a negative available power counting as none
Headroom(b) == IF available_power[b] < 0 THEN 0 ELSE available_power[b]

Required == Abs(solver.c_flow) - solver.rating

\* a bus the search may draw from: it passes the threshold, lowering its
\* injection lowers the flow, and it has headroom
Admissible(b) ==
    /\ b \in get_sparse_array_numba(solver.PTDFc)
    /\ Helps(solver.PTDFc[b], solver.c_flow)
    /\ Headroom(b) > 0

----------------------------------------------------------------------------
(* C20: the post-SRAP figures of a row *)

\* C20: every row appended by analyze has 0 <= post-SRAP flow <=
\* post-contingency flow and SRAP power >= 0; the row of a branch that went
\* through the search has the post-SRAP flow max(0, |c_flow| - |power used|)
\* and the SRAP power |power used|, any other contingency row has the
\* post-contingency flow as post-SRAP flow and SRAP power 0; and the post-SRAP
\* loading of a contingency row is its post-SRAP flow divided by
\* (base rating + 1e-9).
C20_PostSrapFlowWithinBounds ==
    /\ last.contingency_idx >= 0 =>
          \A i \in 1..Len(NewRows) :
              /\ 0 <= NewRows[i].post_srap_flow
              /\ NewRows[i].post_srap_flow <= NewRows[i].post_contingency_flow
              /\ NewRows[i].srap_power >= 0
    /\ \A n \in Emitted :
          /\ RowOf(n).post_contingency_flow = Abs(n.cf)
          /\ IF n.searched
             THEN /\ RowOf(n).post_srap_flow =
                        (IF Abs(n.cf) - Abs(n.search_power) > 0
                         THEN Abs(n.cf) - Abs(n.search_power) ELSE 0)
                  /\ RowOf(n).srap_power = Abs(n.search_power)
             ELSE /\ RowOf(n).post_srap_flow = RowOf(n).post_contingency_flow
                  /\ RowOf(n).srap_power = 0
          /\ PuEq(RowOf(n).post_srap_loading,
                  DivEps(RowOf(n).post_srap_flow, RowOf(n).base_rating))

\* one call has appended the row of a branch whose search used power, a row
\* of a branch that was not searched, and a base-case row
C20_Witness ==
    /\ \E n \in Emitted : n.searched /\ n.search_power > 0
                            /\ RowOf(n).post_srap_flow < RowOf(n).post_contingency_flow
    /\ \E n \in Emitted : ~n.searched
    /\ \E i \in 1..Len(NewRows) : IsBase(NewRows[i])

----------------------------------------------------------------------------
(* C21: FDPF *)

\* what holds of the locals of FDPF at every point of the call
FdpfInvariant ==
    fdpf.pc # "none" =>
        /\ fdpf.iter_ <= fdpf.max_it
        /\ fdpf.Va_updates = fdpf.iter_
        /\ fdpf.Vm_updates \in {fdpf.iter_ - 1, fdpf.iter_} \cap 0..fdpf.iter_
        /\ fdpf.Vm_updates < fdpf.iter_ => fdpf.converged
        /\ (fdpf.converged /\ fdpf.n_block1 > 0) => BothBelowTol(fdpf.normP, fdpf.normQ)
        /\ (fdpf.pc = "return" /\ fdpf.n_block1 = 0) =>
              (fdpf.converged /\ fdpf.iter_ = 0 /\ fdpf.normF = 0)

\* C21: FDPF always returns, with an iteration count of at most max_it; every
\* loop pass runs one P half-iteration and, only if the mismatch is not below
\* tolerance after it, one Q half-iteration; converged is true only if both
\* the P and the Q mismatch norms were below tol at the last evaluation, or
\* there are no block-1 buses, when the result is converged with 0 iterations
\* and norm 0; and once converged is set no voltage update is applied.
C21_FdpfTerminatesWithinMaxIt ==
    /\ <>(fdpf.pc = "return")
    /\ []FdpfInvariant
    /\ [][(fdpf.pc # "none" /\ fdpf.converged) =>
             (fdpf'.Va_updates = fdpf.Va_updates /\ fdpf'.Vm_updates = fdpf.Vm_updates)]_vars

\* FDPF has returned converged after two passes or more, the last of which
\* ran the P half-iteration only
C21_Witness ==
    /\ fdpf.pc = "return"
    /\ fdpf.converged
    /\ fdpf.iter_ >= 2
    /\ fdpf.iter_ < fdpf.max_it
    /\ fdpf.Vm_updates = fdpf.iter_ - 1

----------------------------------------------------------------------------
(* C22: linear expressions *)

\* the coefficient of variable v in expression e
Coef(e, v) == IF v \in DOMAIN e.terms THEN e.terms[v] ELSE 0

\* C22: the arithmetic of linear expressions keeps the constant offset:
\* e1 + e2 has the offset e1.offset + e2.offset and the coefficients summed
\* variable by variable, e1 + k the offset e1.offset + k, e1 - e2 the offset
\* e1.offset - e2.offset, k * e1 the offset k * e1.offset and every coefficient
\* multiplied by k; and the constraint e <= c, e >= c or e == c has the
\* right-hand side c minus the offset of e.
C22_Claim ==
    /\ lp.op = "add" =>
          /\ lp.e1.offset = lp.a.offset + lp.b.offset
          /\ \A v \in LpVars : Coef(lp.e1, v) = Coef(lp.a, v) + Coef(lp.b, v)
    /\ lp.op = "add_scalar" =>
          /\ lp.e1.offset = lp.a.offset + lp.k
          /\ \A v \in LpVars : Coef(lp.e1, v) = Coef(lp.a, v)
    /\ lp.op = "sub" =>
          /\ lp.e1.offset = lp.a.offset - lp.b.offset
          /\ \A v \in LpVars : Coef(lp.e1, v) = Coef(lp.a, v) - Coef(lp.b, v)
    /\ lp.op = "sub_scalar" => lp.e1.offset = lp.a.offset - lp.k
    /\ lp.op = "mul" =>
          /\ lp.e1.offset = lp.k * lp.a.offset
          /\ \A v \in LpVars : Coef(lp.e1, v) = lp.k * Coef(lp.a, v)
    /\ lp.op = "compare" => lp.cst.coefficient = lp.k - lp.a.offset

====
